---- MODULE Spec2Model ----
(***************************************************************************)
(* A model of expo-media3-transformer: the JS wrapper transform(), the     *)
(* Kotlin record-to-Media3 compilers (toMediaItem, toEditedMediaItem,      *)
(* toEffect, toAudioProcessor, toTransformer, toMap) and the coroutine     *)
(* bridge executeTransform, which wires a Transformer.Listener to a        *)
(* CancellableContinuation.                                                *)
(*                                                                         *)
(* Optional (nullable) record fields are modelled by presence in the       *)
(* record's DOMAIN: an absent key is Kotlin's null.  Float fields are      *)
(* modelled by integers; no arithmetic is done on them.  Strings that the  *)
(* code inspects (outputPath) are sequences of one-character strings.      *)
(***************************************************************************)
EXTENDS Integers, Sequences, FiniteSets, TLC

VARIABLES
  request,     \* per invocation: the options object the application passed
  options,     \* per invocation: the TransformOptions record the native module received
  pc,          \* per invocation: position inside transform() / executeTransform
  job,         \* per invocation: state of the calling coroutine's Job
  cont,        \* per invocation: the CancellableContinuation of suspendCancellableCoroutine
  locals,      \* per invocation: the locals of executeTransform (mediaItem, editedMediaItem, ...)
  built,       \* per invocation: the engine objects constructed so far, in construction order
  engine,      \* per invocation: the Transformer instance as a spy (listener, start, cancel calls)
  caller,      \* per invocation: what the suspended caller has received
  hist         \* per invocation: history of the events seen (for stating the properties)

vars == <<request, options, pc, job, cont, locals, built, engine, caller, hist>>

----------------------------------------------------------------------------
(* Bounds of the model *)

MaxEffects == 2
MaxProcessors == 2
MaxMatrices == 2
MaxCallbacks == 2
MaxPathPieces == 2

----------------------------------------------------------------------------
(* Generic helpers *)

Has(r, f) == f \in DOMAIN r

Drop(r, f) == [k \in DOMAIN r \ {f} |-> r[k]]

With(r, f, v) == [k \in DOMAIN r \cup {f} |-> IF k = f THEN v ELSE r[k]]

SeqsUpTo(S, n) == UNION {[1..k -> S] : k \in 0..n}

RECURSIVE Concat(_)
Concat(ss) == IF ss = <<>> THEN <<>> ELSE Head(ss) \o Concat(Tail(ss))

StartsWith(s, p) == Len(s) >= Len(p) /\ SubSeq(s, 1, Len(p)) = p

----------------------------------------------------------------------------
(* The JS wrapper: src/unnamed/part_001 *)

FilePrefix == <<"f", "i", "l", "e", ":", "/", "/">>

\* a replacement that goes on while the path still starts with the prefix
RECURSIVE stripOutputPathUriPrefix_Repeated(_)
stripOutputPathUriPrefix_Repeated(path) ==
  IF StartsWith(path, FilePrefix)
  THEN stripOutputPathUriPrefix_Repeated(SubSeq(path, Len(FilePrefix) + 1, Len(path)))
  ELSE path

\* path.replace(/^file:\/\//, ""): one anchored, non-global replacement
stripOutputPathUriPrefix(path) ==
  IF StartsWith(path, FilePrefix)
  THEN SubSeq(path, Len(FilePrefix) + 1, Len(path))
  ELSE path

\* { ...options, outputPath: stripOutputPathUriPrefix(options.outputPath) }
sanitizedOptions(o) == With(o, "outputPath", stripOutputPathUriPrefix(o.outputPath))

----------------------------------------------------------------------------
(* Exceptions *)

\* class MissingArgumentException(argumentName) :
\*   IllegalArgumentException("Missing required field '$argumentName'")
MissingArgumentException(argumentName) ==
  [kind |-> "MissingArgument", argumentName |-> argumentName]

NoError == [kind |-> "none"]

----------------------------------------------------------------------------
(* The compilers of Media3TransformerModule.kt.  Each returns               *)
(*   [err |-> NoError or the exception thrown, objs |-> the engine objects  *)
(*    constructed, in construction order, value |-> the returned object]    *)
(* so that what was built before a throw stays visible.                     *)

\* a clipping builder that puts the two positions in ascending order
toClippingConfiguration_Sorted(c) ==
  [class |-> "ClippingConfiguration",
   set |-> [k \in DOMAIN c \cap {"startPositionMs", "endPositionMs"} |->
              IF DOMAIN c = {"startPositionMs", "endPositionMs"}
                 /\ c.startPositionMs > c.endPositionMs
              THEN (IF k = "startPositionMs" THEN c.endPositionMs ELSE c.startPositionMs)
              ELSE c[k]]]

\* ClippingConfigurationOptions.toClippingConfiguration
toClippingConfiguration(c) ==
  [class |-> "ClippingConfiguration",
   set |-> [k \in DOMAIN c \cap {"startPositionMs", "endPositionMs"} |-> c[k]]]

\* MediaItemOptions.toMediaItem
toMediaItem(m) ==
  IF ~Has(m, "uri")
  THEN [err |-> MissingArgumentException("mediaItem.uri"), objs |-> <<>>]
  ELSE LET clip == IF Has(m, "clippingConfiguration")
                   THEN <<toClippingConfiguration(m.clippingConfiguration)>>
                   ELSE <<>>
           item == [class |-> "MediaItem", uri |-> m.uri, clipping |-> clip]
       IN [err |-> NoError, objs |-> clip \o <<item>>, value |-> item]

\* a table that forgets the layout of PresentationForAspectRatio
requiredFields_NoLayout(effectType) ==
  CASE effectType = "PresentationForAspectRatio" -> <<"aspectRatio">>
    [] effectType = "PresentationForWidthAndHeight" -> <<"width", "height", "layout">>
    [] effectType = "PresentationForHeight" -> <<"height">>
    [] effectType = "FrameDropEffect" -> <<"targetFrameRate">>
    [] effectType = "ScaleAndRotateTransformation" -> <<"scaleX", "scaleY", "rotationDegrees">>

\* the fields each variant reads, in the order the code reads them
requiredFields(effectType) ==
  CASE effectType = "PresentationForAspectRatio" -> <<"aspectRatio", "layout">>
    [] effectType = "PresentationForWidthAndHeight" -> <<"width", "height", "layout">>
    [] effectType = "PresentationForHeight" -> <<"height">>
    [] effectType = "FrameDropEffect" -> <<"targetFrameRate">>
    [] effectType = "ScaleAndRotateTransformation" -> <<"scaleX", "scaleY", "rotationDegrees">>

\* the Media3 factory each branch of the when() calls
effectFactory(effectType) ==
  CASE effectType = "PresentationForAspectRatio" -> "Presentation.createForAspectRatio"
    [] effectType = "PresentationForWidthAndHeight" -> "Presentation.createForWidthAndHeight"
    [] effectType = "PresentationForHeight" -> "Presentation.createForHeight"
    [] effectType = "FrameDropEffect" -> "FrameDropEffect.createDefaultFrameDropEffect"
    [] effectType = "ScaleAndRotateTransformation" -> "ScaleAndRotateTransformation.Builder"

\* the first field of fs absent from e, or "" when none is
RECURSIVE firstMissing(_, _)
firstMissing(e, fs) ==
  IF fs = <<>> THEN ""
  ELSE IF ~Has(e, Head(fs)) THEN Head(fs)
  ELSE firstMissing(e, Tail(fs))

\* an argument name without the name of the list
effectArgumentName_Bare(field) == field

\* the argument name toEffect puts in its exception
effectArgumentName(field) == "videoEffects." \o field

\* VideoEffectOptions.toEffect
toEffect(e) ==
  IF ~Has(e, "type")
  THEN [err |-> MissingArgumentException(effectArgumentName("type")), objs |-> <<>>]
  ELSE LET fs == requiredFields(e.type)
           missing == firstMissing(e, fs)
       IN IF missing # ""
          THEN [err |-> MissingArgumentException(effectArgumentName(missing)), objs |-> <<>>]
          ELSE LET obj == [class |-> "Effect", factory |-> effectFactory(e.type),
                           args |-> [k \in 1..Len(fs) |-> e[fs[k]]]]
               IN [err |-> NoError, objs |-> <<obj>>, value |-> obj]

\* a loop that raises non-positive channel counts to 1 before creating the matrix
RECURSIVE putMatrices_Clamped(_, _)
putMatrices_Clamped(ms, fed) ==
  IF ms = <<>> THEN [err |-> NoError, fed |-> fed]
  ELSE LET m == Head(ms) IN
    IF ~Has(m, "inputChannelCount")
    THEN [err |-> MissingArgumentException("audioProcessors.channelMixingMatrices.inputChannelCount"),
          fed |-> fed]
    ELSE IF ~Has(m, "outputChannelCount")
    THEN [err |-> MissingArgumentException("audioProcessors.channelMixingMatrices.outputChannelCount"),
          fed |-> fed]
    ELSE putMatrices_Clamped(Tail(ms),
           Append(fed, [class |-> "ChannelMixingMatrix",
                        inputChannels |-> IF m.inputChannelCount < 1 THEN 1 ELSE m.inputChannelCount,
                        outputChannels |-> IF m.outputChannelCount < 1 THEN 1 ELSE m.outputChannelCount]))

\* matrixOptions -> ChannelMixingMatrix.create(inputChannels, outputChannels), inside forEach
RECURSIVE putMatrices(_, _)
putMatrices(ms, fed) ==
  IF ms = <<>> THEN [err |-> NoError, fed |-> fed]
  ELSE LET m == Head(ms) IN
    IF ~Has(m, "inputChannelCount")
    THEN [err |-> MissingArgumentException("audioProcessors.channelMixingMatrices.inputChannelCount"),
          fed |-> fed]
    ELSE IF ~Has(m, "outputChannelCount")
    THEN [err |-> MissingArgumentException("audioProcessors.channelMixingMatrices.outputChannelCount"),
          fed |-> fed]
    ELSE putMatrices(Tail(ms),
                     Append(fed, [class |-> "ChannelMixingMatrix",
                                  inputChannels |-> m.inputChannelCount,
                                  outputChannels |-> m.outputChannelCount]))

\* a compiler that constructs the processor only when every matrix is complete
toAudioProcessor_ChecksFirst(p) ==
  IF ~Has(p, "type")
  THEN [err |-> MissingArgumentException("audioProcessors.type"), objs |-> <<>>]
  ELSE LET r == putMatrices(IF Has(p, "channelMixingMatrices")
                            THEN p.channelMixingMatrices ELSE <<>>, <<>>)
           obj == [class |-> "ChannelMixingAudioProcessor", matrices |-> r.fed]
       IN IF r.err.kind # "none"
          THEN [err |-> r.err, objs |-> <<>>]
          ELSE [err |-> NoError, objs |-> <<obj>>, value |-> obj]

\* a compiler that takes an absent matrix list for a missing argument
toAudioProcessor_RequiresMatrices(p) ==
  IF ~Has(p, "type")
  THEN [err |-> MissingArgumentException("audioProcessors.type"), objs |-> <<>>]
  ELSE IF ~Has(p, "channelMixingMatrices")
  THEN [err |-> MissingArgumentException("audioProcessors.channelMixingMatrices"), objs |-> <<>>]
  ELSE LET r == putMatrices(p.channelMixingMatrices, <<>>)
           obj == [class |-> "ChannelMixingAudioProcessor", matrices |-> r.fed]
       IN IF r.err.kind # "none"
          THEN [err |-> r.err, objs |-> <<obj>>]
          ELSE [err |-> NoError, objs |-> <<obj>>, value |-> obj]

\* AudioProcessorOptions.toAudioProcessor
toAudioProcessor(p) ==
  IF ~Has(p, "type")
  THEN [err |-> MissingArgumentException("audioProcessors.type"), objs |-> <<>>]
  ELSE LET r == putMatrices(IF Has(p, "channelMixingMatrices")
                            THEN p.channelMixingMatrices ELSE <<>>, <<>>)
           obj == [class |-> "ChannelMixingAudioProcessor", matrices |-> r.fed]
       IN IF r.err.kind # "none"
          THEN [err |-> r.err, objs |-> <<obj>>]
          ELSE [err |-> NoError, objs |-> <<obj>>, value |-> obj]

\* a map that collects its results in front: the chain comes out reversed
RECURSIVE mapEffectsFrom_Prepend(_, _, _)
mapEffectsFrom_Prepend(list, values, objs) ==
  IF list = <<>> THEN [err |-> NoError, objs |-> objs, value |-> values]
  ELSE LET r == toEffect(Head(list)) IN
    IF r.err.kind # "none"
    THEN [err |-> r.err, objs |-> objs \o r.objs]
    ELSE mapEffectsFrom_Prepend(Tail(list), <<r.value>> \o values, objs \o r.objs)

\* videoEffects.map { it.toEffect() }: left to right, stopping at the first throw
RECURSIVE mapEffectsFrom(_, _, _)
mapEffectsFrom(list, values, objs) ==
  IF list = <<>> THEN [err |-> NoError, objs |-> objs, value |-> values]
  ELSE LET r == toEffect(Head(list)) IN
    IF r.err.kind # "none"
    THEN [err |-> r.err, objs |-> objs \o r.objs]
    ELSE mapEffectsFrom(Tail(list), Append(values, r.value), objs \o r.objs)

mapEffects(list) == mapEffectsFrom(list, <<>>, <<>>)

\* audioProcessors.map { it.toAudioProcessor() }: left to right, stopping at the first throw
RECURSIVE mapAudioProcessorsFrom(_, _, _)
mapAudioProcessorsFrom(list, values, objs) ==
  IF list = <<>> THEN [err |-> NoError, objs |-> objs, value |-> values]
  ELSE LET r == toAudioProcessor(Head(list)) IN
    IF r.err.kind # "none"
    THEN [err |-> r.err, objs |-> objs \o r.objs]
    ELSE mapAudioProcessorsFrom(Tail(list), Append(values, r.value), objs \o r.objs)

mapAudioProcessors(list) == mapAudioProcessorsFrom(list, <<>>, <<>>)

\* a compilation that maps the audio processors before the video effects
toEditedMediaItem_ProcessorsFirst(m, mediaItem) ==
  LET ap == mapAudioProcessors(IF Has(m, "audioProcessors") THEN m.audioProcessors ELSE <<>>) IN
  IF ap.err.kind # "none" THEN [err |-> ap.err, objs |-> ap.objs]
  ELSE LET ve == mapEffects(IF Has(m, "videoEffects") THEN m.videoEffects ELSE <<>>) IN
    IF ve.err.kind # "none" THEN [err |-> ve.err, objs |-> ap.objs \o ve.objs]
    ELSE LET edited == [class |-> "EditedMediaItem", mediaItem |-> mediaItem,
                        audioProcessors |-> ap.value, videoEffects |-> ve.value]
         IN [err |-> NoError, objs |-> ap.objs \o ve.objs \o <<edited>>, value |-> edited]

\* MediaItemOptions.toEditedMediaItem
toEditedMediaItem(m, mediaItem) ==
  LET ve == mapEffects(IF Has(m, "videoEffects") THEN m.videoEffects ELSE <<>>) IN
  IF ve.err.kind # "none" THEN [err |-> ve.err, objs |-> ve.objs]
  ELSE LET ap == mapAudioProcessors(IF Has(m, "audioProcessors")
                                    THEN m.audioProcessors ELSE <<>>) IN
    IF ap.err.kind # "none" THEN [err |-> ap.err, objs |-> ve.objs \o ap.objs]
    ELSE LET edited == [class |-> "EditedMediaItem", mediaItem |-> mediaItem,
                        audioProcessors |-> ap.value, videoEffects |-> ve.value]
         IN [err |-> NoError, objs |-> ve.objs \o ap.objs \o <<edited>>, value |-> edited]

\* VideoEncoderSettingsOptions.toVideoEncoderSettings
toVideoEncoderSettings(s) ==
  [class |-> "VideoEncoderSettings", set |-> [k \in DOMAIN s \cap {"bitrate"} |-> s[k]]]

\* EncoderFactoryOptions.toEncoderFactory
toEncoderFactory(f) ==
  LET settings == IF Has(f, "requestedVideoEncoderSettings")
                  THEN <<toVideoEncoderSettings(f.requestedVideoEncoderSettings)>>
                  ELSE <<>>
      factory == [class |-> "DefaultEncoderFactory", requestedVideoEncoderSettings |-> settings]
  IN [objs |-> settings \o <<factory>>, value |-> factory]

\* TransformOptions.toTransformer
toTransformer(o) ==
  LET ef == IF Has(o, "encoderFactory") THEN toEncoderFactory(o.encoderFactory)
            ELSE [objs |-> <<>>]
      t == [class |-> "Transformer",
            set |-> [k \in DOMAIN o \cap {"videoMimeType", "audioMimeType"} |-> o[k]],
            encoderFactory |-> IF Has(o, "encoderFactory") THEN <<ef.value>> ELSE <<>>]
  IN [err |-> NoError, objs |-> ef.objs \o <<t>>, value |-> t]

----------------------------------------------------------------------------
(* The result translator *)

\* A Kotlin Long is modelled by its two 32-bit words, each written as the signed
\* 32-bit integer with that bit pattern: the value is hi * 2^32 + (lo mod 2^32).
Long(hi, lo) == [hi |-> hi, lo |-> lo]

\* Kotlin Long.toInt(): the low 32 bits, as a signed 32-bit integer
toInt(x) == x.lo

\* ExportResult.toMap
toMap(r) ==
  [averageAudioBitrate |-> r.averageAudioBitrate,
   averageVideoBitrate |-> r.averageVideoBitrate,
   durationMs |-> toInt(r.durationMs),
   fileSizeBytes |-> toInt(r.fileSizeBytes),
   videoFrameCount |-> r.videoFrameCount,
   channelCount |-> r.channelCount,
   sampleRate |-> r.sampleRate,
   height |-> r.height,
   width |-> r.width,
   audioEncoderName |-> r.audioEncoderName,
   videoEncoderName |-> r.videoEncoderName]

----------------------------------------------------------------------------
(* The inputs the model draws from *)

\* one well-formed effect per variant of VideoEffectType, and a second FrameDropEffect
\* that differs only in its value and carries a field its variant does not read
ValidEffects ==
  {[type |-> "PresentationForAspectRatio", aspectRatio |-> 2, layout |-> 0],
   [type |-> "PresentationForWidthAndHeight", width |-> 640, height |-> 360, layout |-> 1],
   [type |-> "PresentationForHeight", height |-> 180],
   [type |-> "FrameDropEffect", targetFrameRate |-> 30],
   [type |-> "FrameDropEffect", targetFrameRate |-> 24, height |-> 99],
   [type |-> "ScaleAndRotateTransformation", scaleX |-> 1, scaleY |-> 2, rotationDegrees |-> 90]}

\* every valid effect with exactly one of its fields other than the type left out
OneFieldMissingEffects == UNION {{Drop(e, f) : f \in DOMAIN e \ {"type"}} : e \in ValidEffects}

\* effects with no type, or with several required fields left out
OtherInvalidEffects ==
  {[height |-> 180],
   [type |-> "ScaleAndRotateTransformation"],
   [type |-> "PresentationForWidthAndHeight", layout |-> 1]}

EffectPool == ValidEffects \cup OneFieldMissingEffects \cup OtherInvalidEffects

ValidMatrices ==
  {[inputChannelCount |-> 1, outputChannelCount |-> 2],
   [inputChannelCount |-> 2, outputChannelCount |-> 1],
   [inputChannelCount |-> 0, outputChannelCount |-> -1]}

MatrixPool ==
  ValidMatrices \cup {[outputChannelCount |-> 1], [inputChannelCount |-> 1], << >>}

ChannelMixing(ms) == [type |-> "ChannelMixingAudioProcessor", channelMixingMatrices |-> ms]

\* processors that vary in their matrix list
MatrixProcessors == {ChannelMixing(ms) : ms \in SeqsUpTo(MatrixPool, MaxMatrices)}

\* a fixed handful of processors, for lists of several
ProcessorPool ==
  {[type |-> "ChannelMixingAudioProcessor"],
   ChannelMixing(<<[inputChannelCount |-> 1, outputChannelCount |-> 2],
                   [inputChannelCount |-> 2, outputChannelCount |-> 1]>>),
   ChannelMixing(<<[inputChannelCount |-> 2, outputChannelCount |-> 2]>>),
   ChannelMixing(<<[inputChannelCount |-> 1, outputChannelCount |-> 2], [outputChannelCount |-> 1]>>),
   [channelMixingMatrices |-> << >>]}

ValidPath == <<"/", "a">>

PathPieces == {FilePrefix, ValidPath, <<"c", ":">>}

JsOutputPaths == {Concat(ps) : ps \in SeqsUpTo(PathPieces, MaxPathPieces)}

BaseItem == [uri |-> "in.mp4"]

ClippingOptions ==
  {<< >>, [startPositionMs |-> 1000], [endPositionMs |-> 6000],
   [startPositionMs |-> 1000, endPositionMs |-> 6000],
   [startPositionMs |-> 6000, endPositionMs |-> 1000]}

EncoderFactoryOptions ==
  {<< >>, [requestedVideoEncoderSettings |-> << >>],
   [requestedVideoEncoderSettings |-> [bitrate |-> 1000000]],
   [requestedVideoEncoderSettings |-> [bitrate |-> 0]]}

\* a record over the keys ks, each key present or not
OptionalFields(r) == {[k \in ks |-> r[k]] : ks \in SUBSET DOMAIN r}

\* requests that vary in the presence of mediaItem, uri and outputPath
HeadRequests ==
  LET items == UNION {OptionalFields([uri |-> u,
                          videoEffects |-> <<[type |-> "FrameDropEffect"]>>,
                          audioProcessors |-> <<[channelMixingMatrices |-> << >>]>>])
                      : u \in {"", "in.mp4"}}
  IN UNION {OptionalFields([mediaItem |-> m, outputPath |-> p])
            : <<m, p>> \in items \X {<< >>, ValidPath}}

\* requests that vary in the list of video effects, beside one valid processor
EffectRequests ==
  {[mediaItem |-> [uri |-> "in.mp4", videoEffects |-> es,
                   audioProcessors |-> <<ChannelMixing(<<[inputChannelCount |-> 1,
                                                          outputChannelCount |-> 2]>>)>>],
    outputPath |-> ValidPath]
   : es \in SeqsUpTo(EffectPool, MaxEffects)}

\* requests that vary in the list of audio processors, beside one valid effect
ProcessorRequests ==
  {[mediaItem |-> [uri |-> "in.mp4", audioProcessors |-> ps,
                   videoEffects |-> <<[type |-> "PresentationForHeight", height |-> 180]>>],
    outputPath |-> ValidPath]
   : ps \in SeqsUpTo(ProcessorPool, MaxProcessors) \cup {<<p>> : p \in MatrixProcessors}}

\* requests that vary in the clipping range
ClippingRequests ==
  {[mediaItem |-> With(BaseItem, "clippingConfiguration", c), outputPath |-> ValidPath]
   : c \in ClippingOptions}

\* requests that vary in the top-level overrides
OverrideRequests ==
  {With(o, "outputPath", ValidPath) : o \in
     UNION {OptionalFields([mediaItem |-> BaseItem, videoMimeType |-> "video/avc",
                            audioMimeType |-> "audio/mp4a-latm", encoderFactory |-> f])
            : f \in EncoderFactoryOptions}}

\* what a direct caller of executeTransform may pass
NativeRequests ==
  HeadRequests \cup EffectRequests \cup ProcessorRequests \cup ClippingRequests \cup OverrideRequests

\* what the JS wrapper is called with: outputPath is a string there
JsRequests ==
  {[mediaItem |-> m, outputPath |-> p]
   : <<m, p>> \in {BaseItem, << >>} \X JsOutputPaths}

\* the ExportResults the engine may report: an ordinary one, one with every metric
\* unset (C.RATE_UNSET_INT, C.TIME_UNSET, C.LENGTH_UNSET; null names are modelled as ""),
\* and one of a long, large export (2^31 + 1 ms, 3 GiB)
ExportResults ==
  {[averageAudioBitrate |-> 128000, averageVideoBitrate |-> 1000000, durationMs |-> Long(0, 13313),
    fileSizeBytes |-> Long(0, 572481), videoFrameCount |-> 400, channelCount |-> 2, sampleRate |-> 44100,
    height |-> 360, width |-> 640, audioEncoderName |-> "aac", videoEncoderName |-> "avc"],
   [averageAudioBitrate |-> -2147483647, averageVideoBitrate |-> -2147483647,
    durationMs |-> Long(-2147483647 - 1, 1), fileSizeBytes |-> Long(-1, -1), videoFrameCount |-> 0,
    channelCount |-> -1, sampleRate |-> -2147483647, height |-> -1, width |-> -1,
    audioEncoderName |-> "", videoEncoderName |-> ""],
   [averageAudioBitrate |-> 128000, averageVideoBitrate |-> 8000000, durationMs |-> Long(0, -2147483647),
    fileSizeBytes |-> Long(0, -1073741824), videoFrameCount |-> 64424509, channelCount |-> 2,
    sampleRate |-> 48000, height |-> 1080, width |-> 1920,
    audioEncoderName |-> "aac", videoEncoderName |-> "avc"]}

ExportExceptions ==
  {[message |-> "Decoding failed", cause |-> "IllegalStateException"],
   [message |-> "Muxer error", cause |-> "IOException"]}

----------------------------------------------------------------------------
(* The continuation of suspendCancellableCoroutine (kotlinx.coroutines'      *)
(* CancellableContinuation, as its documentation states it): it is Active    *)
(* until the first of resume / resumeWithException / cancel, which makes it  *)
(* Resumed or Cancelled for good.  A resume of a Resumed continuation throws *)
(* IllegalStateException in the resumer; the first resume of a Cancelled one *)
(* is ignored.  The caller receives a Resumed value only if its Job is still *)
(* active when it actually runs again (prompt cancellation guarantee).       *)

NoResult == [kind |-> "none"]

NoContinuation == [state |-> "None", result |-> NoResult, resumed |-> FALSE, handler |-> FALSE]

\* CancellableContinuationImpl(...).initCancellability() under a Job in state j
newContinuation(j) ==
  [state |-> IF j = "Cancelled" THEN "Cancelled" ELSE "Active",
   result |-> NoResult, resumed |-> FALSE, handler |-> FALSE]

\* a resume without the resolve-once guard: the last resolution wins
resumeWith_LastWins(c, result) ==
  [cont |-> [c EXCEPT !.state = "Resumed", !.result = result], threw |-> FALSE]

\* continuation.resume(value) / continuation.resumeWithException(exception):
\* the continuation afterwards, and whether the call threw IllegalStateException
resumeWith(c, result) ==
  CASE c.state = "Active" ->
         [cont |-> [c EXCEPT !.state = "Resumed", !.result = result], threw |-> FALSE]
    [] c.state = "Cancelled" /\ ~c.resumed ->
         [cont |-> [c EXCEPT !.resumed = TRUE], threw |-> FALSE]
    [] OTHER -> [cont |-> c, threw |-> TRUE]

\* what the caller of executeTransform receives when it runs again
outcomeOf(c, j) ==
  CASE c.state = "Cancelled" -> [kind |-> "Cancelled"]
    [] c.state = "Resumed" /\ c.result.kind = "exception" ->
         [kind |-> "EngineFailure", exception |-> c.result.exception]
    [] c.state = "Resumed" /\ c.result.kind = "value" /\ j = "Cancelled" -> [kind |-> "Cancelled"]
    [] c.state = "Resumed" /\ c.result.kind = "value" /\ j # "Cancelled" ->
         [kind |-> "Success", value |-> c.result.value]

NoOutcome == [kind |-> "none"]

----------------------------------------------------------------------------
(* The state machine *)

Invocations == DOMAIN pc

NewEngine == [listener |-> FALSE, starts |-> <<>>, cancelCalls |-> 0, callbacks |-> 0]

NoHistory == [faults |-> 0, cancelAt |-> "", contAtCancel |-> "", startsAtCancel |-> 0,
              callbacksAtCancel |-> 0, first |-> NoResult, reported |-> << >>]

\* the invocations ids before any has run, each with a request of requests; they enter
\* through the JS wrapper (viaJs) or call the native function directly
InitWith(ids, requests, viaJs) ==
  /\ request \in [ids -> requests]
  /\ options = [i \in ids |-> IF viaJs THEN << >> ELSE request[i]]
  /\ pc = [i \in ids |-> IF viaJs THEN "transform" ELSE "executeTransform"]
  /\ job = [i \in ids |-> "Active"]
  /\ cont = [i \in ids |-> NoContinuation]
  /\ locals = [i \in ids |-> << >>]
  /\ built = [i \in ids |-> << >>]
  /\ engine = [i \in ids |-> NewEngine]
  /\ caller = [i \in ids |-> [resumed |-> 0, outcome |-> NoOutcome]]
  /\ hist = [i \in ids |-> NoHistory]

Init == InitWith({1}, JsRequests, TRUE) \/ InitWith({1}, NativeRequests, FALSE)

\* a statement of the block throws: the exception leaves suspendCancellableCoroutine
\* and reaches the caller at once
Throw(i, err, objs) ==
  /\ caller' = [caller EXCEPT ![i] = [resumed |-> @.resumed + 1,
                                      outcome |-> [kind |-> err.kind, argumentName |-> err.argumentName]]]
  /\ built' = [built EXCEPT ![i] = @ \o objs]
  /\ pc' = [pc EXCEPT ![i] = "done"]
  /\ UNCHANGED locals

\* part_001, transform: strip the prefix and call the native module
transform(i) ==
  /\ pc[i] = "transform"
  /\ options' = [options EXCEPT ![i] = sanitizedOptions(request[i])]
  /\ pc' = [pc EXCEPT ![i] = "executeTransform"]
  /\ UNCHANGED <<request, job, cont, locals, built, engine, caller, hist>>

\* suspendCancellableCoroutine { continuation -> ... }: the continuation is created
\* under the caller's Job, then the block runs
suspendCancellableCoroutine(i) ==
  /\ pc[i] = "executeTransform"
  /\ cont' = [cont EXCEPT ![i] = newContinuation(job[i])]
  /\ pc' = [pc EXCEPT ![i] = "validate"]
  /\ UNCHANGED <<request, options, job, locals, built, engine, caller, hist>>

\* val mediaItemOptions = options.mediaItem ?: throw ...; val outputPath = options.outputPath ?: throw ...
validate(i) ==
  /\ pc[i] = "validate"
  /\ IF ~Has(options[i], "mediaItem")
     THEN Throw(i, MissingArgumentException("mediaItem"), <<>>)
     ELSE IF ~Has(options[i], "outputPath")
     THEN Throw(i, MissingArgumentException("outputPath"), <<>>)
     ELSE /\ locals' = [locals EXCEPT ![i] = [mediaItemOptions |-> options[i].mediaItem,
                                               outputPath |-> options[i].outputPath]]
          /\ pc' = [pc EXCEPT ![i] = "toMediaItem"]
          /\ UNCHANGED <<built, caller>>
  /\ UNCHANGED <<request, options, job, cont, engine, hist>>

\* val mediaItem = mediaItemOptions.toMediaItem()
buildMediaItem(i) ==
  /\ pc[i] = "toMediaItem"
  /\ LET r == toMediaItem(locals[i].mediaItemOptions) IN
       IF r.err.kind # "none" THEN Throw(i, r.err, r.objs)
       ELSE /\ locals' = [locals EXCEPT ![i] = With(@, "mediaItem", r.value)]
            /\ built' = [built EXCEPT ![i] = @ \o r.objs]
            /\ pc' = [pc EXCEPT ![i] = "toEditedMediaItem"]
            /\ UNCHANGED caller
  /\ UNCHANGED <<request, options, job, cont, engine, hist>>

\* val editedMediaItem = mediaItemOptions.toEditedMediaItem(mediaItem)
buildEditedMediaItem(i) ==
  /\ pc[i] = "toEditedMediaItem"
  /\ LET r == toEditedMediaItem(locals[i].mediaItemOptions, locals[i].mediaItem) IN
       IF r.err.kind # "none" THEN Throw(i, r.err, r.objs)
       ELSE /\ locals' = [locals EXCEPT ![i] = With(@, "editedMediaItem", r.value)]
            /\ built' = [built EXCEPT ![i] = @ \o r.objs]
            /\ pc' = [pc EXCEPT ![i] = "toTransformer"]
            /\ UNCHANGED caller
  /\ UNCHANGED <<request, options, job, cont, engine, hist>>

\* val transformer = options.toTransformer(context)
buildTransformer(i) ==
  /\ pc[i] = "toTransformer"
  /\ LET r == toTransformer(options[i]) IN
       /\ locals' = [locals EXCEPT ![i] = With(@, "transformer", r.value)]
       /\ built' = [built EXCEPT ![i] = @ \o r.objs]
  /\ pc' = [pc EXCEPT ![i] = "addListener"]
  /\ UNCHANGED <<request, options, job, cont, engine, caller, hist>>

\* a block that goes on to start without having added the listener
addListener_Skipped(i) ==
  /\ pc[i] = "addListener"
  /\ pc' = [pc EXCEPT ![i] = "start"]
  /\ UNCHANGED <<request, options, job, cont, locals, built, engine, caller, hist>>

\* transformer.addListener(object : Transformer.Listener { ... })
addListener(i) ==
  /\ pc[i] = "addListener"
  /\ engine' = [engine EXCEPT ![i].listener = TRUE]
  /\ pc' = [pc EXCEPT ![i] = "start"]
  /\ UNCHANGED <<request, options, job, cont, locals, built, caller, hist>>

\* a block that does not start the engine when the continuation is already cancelled
start_UnlessCancelled(i) ==
  /\ pc[i] = "start"
  /\ engine' = [engine EXCEPT ![i].starts =
                  IF cont[i].state = "Cancelled" THEN @
                  ELSE Append(@, [editedMediaItem |-> locals[i].editedMediaItem,
                                  outputPath |-> locals[i].outputPath,
                                  after |-> Len(built[i]),
                                  listener |-> engine[i].listener])]
  /\ pc' = [pc EXCEPT ![i] = "invokeOnCancellation"]
  /\ UNCHANGED <<request, options, job, cont, locals, built, caller, hist>>

\* transformer.start(editedMediaItem, outputPath)
start(i) ==
  /\ pc[i] = "start"
  /\ engine' = [engine EXCEPT ![i].starts =
                  Append(@, [editedMediaItem |-> locals[i].editedMediaItem,
                             outputPath |-> locals[i].outputPath,
                             after |-> Len(built[i]),
                             listener |-> engine[i].listener])]
  /\ pc' = [pc EXCEPT ![i] = "invokeOnCancellation"]
  /\ UNCHANGED <<request, options, job, cont, locals, built, caller, hist>>

\* a registration that only stores the handler: a cancellation that came first is lost
invokeOnCancellation_Lost(i) ==
  /\ pc[i] = "invokeOnCancellation"
  /\ cont' = [cont EXCEPT ![i].handler = TRUE]
  /\ pc' = [pc EXCEPT ![i] = "getResult"]
  /\ UNCHANGED <<request, options, job, locals, built, engine, caller, hist>>

\* a registration that runs the handler at once whenever the continuation is no
\* longer active, also when it was resumed by a callback
invokeOnCancellation_WhenResolved(i) ==
  /\ pc[i] = "invokeOnCancellation"
  /\ cont' = [cont EXCEPT ![i].handler = TRUE]
  /\ engine' = [engine EXCEPT ![i].cancelCalls =
                  IF cont[i].state # "Active" THEN @ + 1 ELSE @]
  /\ pc' = [pc EXCEPT ![i] = "getResult"]
  /\ UNCHANGED <<request, options, job, locals, built, caller, hist>>

\* continuation.invokeOnCancellation { transformer.cancel() }: the handler is stored,
\* or runs at once when the continuation is already cancelled
invokeOnCancellation(i) ==
  /\ pc[i] = "invokeOnCancellation"
  /\ cont' = [cont EXCEPT ![i].handler = TRUE]
  /\ engine' = [engine EXCEPT ![i].cancelCalls =
                  IF cont[i].state = "Cancelled" THEN @ + 1 ELSE @]
  /\ pc' = [pc EXCEPT ![i] = "getResult"]
  /\ UNCHANGED <<request, options, job, locals, built, caller, hist>>

\* the caller runs again with what the continuation holds
Deliver(i) ==
  /\ caller' = [caller EXCEPT ![i] = [resumed |-> @.resumed + 1,
                                      outcome |-> outcomeOf(cont[i], job[i])]]
  /\ pc' = [pc EXCEPT ![i] = "done"]

\* the end of the block: the caller suspends, unless the continuation is already
\* resolved, in which case executeTransform returns or throws without suspending
getResult(i) ==
  /\ pc[i] = "getResult"
  /\ IF cont[i].state = "Active"
     THEN pc' = [pc EXCEPT ![i] = "suspended"] /\ UNCHANGED caller
     ELSE Deliver(i)
  /\ UNCHANGED <<request, options, job, cont, locals, built, engine, hist>>

\* a dispatcher that runs the caller again only for a continuation a callback resumed
dispatchResume_OnlyResumed(i) ==
  /\ pc[i] = "suspended"
  /\ cont[i].state = "Resumed"
  /\ Deliver(i)
  /\ UNCHANGED <<request, options, job, cont, locals, built, engine, hist>>

\* the dispatcher runs the resumed (or cancelled) caller
dispatchResume(i) ==
  /\ pc[i] = "suspended"
  /\ cont[i].state # "Active"
  /\ Deliver(i)
  /\ UNCHANGED <<request, options, job, cont, locals, built, engine, hist>>

\* the listener body: continuation.resume(...) / resumeWithException(...), called
\* with what the engine reported
Resume(i, result, reported) ==
  LET r == resumeWith(cont[i], result) IN
  /\ cont' = [cont EXCEPT ![i] = r.cont]
  /\ hist' = [hist EXCEPT ![i].faults = IF r.threw THEN @ + 1 ELSE @,
                          ![i].first = IF engine[i].callbacks = 0 THEN result ELSE @,
                          ![i].reported = IF engine[i].callbacks = 0 THEN reported ELSE @]
  /\ engine' = [engine EXCEPT ![i].callbacks = @ + 1]
  /\ UNCHANGED <<request, options, pc, job, locals, built, caller>>

\* the engine fires Transformer.Listener.onCompleted(composition, exportResult)
onCompleted(i) ==
  /\ engine[i].listener
  /\ engine[i].starts # <<>>
  /\ engine[i].callbacks < MaxCallbacks
  /\ \E exportResult \in ExportResults :
       Resume(i, [kind |-> "value", value |-> toMap(exportResult)], exportResult)

\* a listener that passes on a new exception with the message only
onError_MessageOnly(i) ==
  /\ engine[i].listener
  /\ engine[i].starts # <<>>
  /\ engine[i].callbacks < MaxCallbacks
  /\ \E exception \in ExportExceptions :
       Resume(i, [kind |-> "exception",
                  exception |-> [message |-> exception.message, cause |-> ""]], exception)

\* the engine fires Transformer.Listener.onError(composition, exportResult, exception)
onError(i) ==
  /\ engine[i].listener
  /\ engine[i].starts # <<>>
  /\ engine[i].callbacks < MaxCallbacks
  /\ \E exception \in ExportExceptions :
       Resume(i, [kind |-> "exception", exception |-> exception], exception)

\* a cancellation that is only forwarded to the engine: the continuation is left to
\* be resolved by the engine's next callback
cancel_WaitsForEngine(i) ==
  /\ pc[i] # "transform"
  /\ job[i] = "Active"
  /\ job' = [job EXCEPT ![i] = "Cancelled"]
  /\ engine' = [engine EXCEPT ![i].cancelCalls =
                  IF cont[i].state = "Active" /\ cont[i].handler THEN @ + 1 ELSE @]
  /\ hist' = [hist EXCEPT ![i].cancelAt = pc[i],
                          ![i].contAtCancel = cont[i].state,
                          ![i].startsAtCancel = Len(engine[i].starts),
                          ![i].callbacksAtCancel = engine[i].callbacks]
  /\ UNCHANGED <<request, options, pc, cont, locals, built, caller>>

\* a cancellation that runs the registered handler whatever the continuation's state
cancel_AlwaysForwards(i) ==
  /\ pc[i] # "transform"
  /\ job[i] = "Active"
  /\ job' = [job EXCEPT ![i] = "Cancelled"]
  /\ cont' = [cont EXCEPT ![i].state = IF @ = "Active" THEN "Cancelled" ELSE @]
  /\ engine' = [engine EXCEPT ![i].cancelCalls = IF cont[i].handler THEN @ + 1 ELSE @]
  /\ hist' = [hist EXCEPT ![i].cancelAt = pc[i],
                          ![i].contAtCancel = cont[i].state,
                          ![i].startsAtCancel = Len(engine[i].starts),
                          ![i].callbacksAtCancel = engine[i].callbacks]
  /\ UNCHANGED <<request, options, pc, locals, built, caller>>

\* a cancellation that cancels the Jobs of all the invocations, as one shared scope would
cancel_SharedJob(i) ==
  /\ pc[i] # "transform"
  /\ job[i] = "Active"
  /\ job' = [j \in Invocations |-> "Cancelled"]
  /\ cont' = [j \in Invocations |->
               [cont[j] EXCEPT !.state = IF @ = "Active" THEN "Cancelled" ELSE @]]
  /\ engine' = [engine EXCEPT ![i].cancelCalls =
                  IF cont[i].state = "Active" /\ cont[i].handler THEN @ + 1 ELSE @]
  /\ hist' = [hist EXCEPT ![i].cancelAt = pc[i],
                          ![i].contAtCancel = cont[i].state,
                          ![i].startsAtCancel = Len(engine[i].starts),
                          ![i].callbacksAtCancel = engine[i].callbacks]
  /\ UNCHANGED <<request, options, pc, locals, built, caller>>

\* the caller's Job is cancelled from outside: an Active continuation becomes
\* Cancelled and its cancellation handler, if registered, runs transformer.cancel()
cancel(i) ==
  /\ pc[i] # "transform"
  /\ job[i] = "Active"
  /\ job' = [job EXCEPT ![i] = "Cancelled"]
  /\ cont' = [cont EXCEPT ![i].state = IF @ = "Active" THEN "Cancelled" ELSE @]
  /\ engine' = [engine EXCEPT ![i].cancelCalls =
                  IF cont[i].state = "Active" /\ cont[i].handler THEN @ + 1 ELSE @]
  /\ hist' = [hist EXCEPT ![i].cancelAt = pc[i],
                          ![i].contAtCancel = cont[i].state,
                          ![i].startsAtCancel = Len(engine[i].starts),
                          ![i].callbacksAtCancel = engine[i].callbacks]
  /\ UNCHANGED <<request, options, pc, locals, built, caller>>

Next ==
  \/ \E i \in Invocations : transform(i)
  \/ \E i \in Invocations : suspendCancellableCoroutine(i)
  \/ \E i \in Invocations : validate(i)
  \/ \E i \in Invocations : buildMediaItem(i)
  \/ \E i \in Invocations : buildEditedMediaItem(i)
  \/ \E i \in Invocations : buildTransformer(i)
  \/ \E i \in Invocations : addListener(i)
  \/ \E i \in Invocations : start(i)
  \/ \E i \in Invocations : invokeOnCancellation(i)
  \/ \E i \in Invocations : getResult(i)
  \/ \E i \in Invocations : dispatchResume(i)
  \/ \E i \in Invocations : onCompleted(i)
  \/ \E i \in Invocations : onError(i)
  \/ \E i \in Invocations : cancel(i)

Spec == Init /\ [][Next]_vars

\* a step of the code of transform() / executeTransform of invocation i: straight-line
\* code on the calling thread, which runs to its end
BlockStep(i) ==
  \/ transform(i)
  \/ suspendCancellableCoroutine(i)
  \/ validate(i)
  \/ buildMediaItem(i)
  \/ buildEditedMediaItem(i)
  \/ buildTransformer(i)
  \/ addListener(i)
  \/ start(i)
  \/ invokeOnCancellation(i)
  \/ getResult(i)

\* the engine fires the one callback of a started Transformer whose Job is not cancelled
FirstCallback(i) ==
  /\ engine[i].callbacks = 0
  /\ job[i] = "Active"
  /\ (onCompleted(i) \/ onError(i))

\* the block runs to its end, the dispatcher runs a resumed caller, and the engine
\* fires a callback for every started instance that is not cancelled
Fairness ==
  /\ WF_vars(\E i \in Invocations : BlockStep(i))
  /\ WF_vars(\E i \in Invocations : dispatchResume(i))
  /\ WF_vars(\E i \in Invocations : FirstCallback(i))

\* calls of transform() through the JS wrapper, with an engine that answers
FairSpec == InitWith({1}, JsRequests, TRUE) /\ [][Next]_vars /\ Fairness

\* two calls of transform() in flight at once: the first with a request that is valid
\* or has an effect without its required field, the second with another valid request
ConcurrentRequests ==
  {[mediaItem |-> [uri |-> "in.mp4",
                   videoEffects |-> <<[type |-> "PresentationForHeight", height |-> 180]>>],
    outputPath |-> FilePrefix \o ValidPath],
   [mediaItem |-> [uri |-> "in.mp4", videoEffects |-> <<[type |-> "FrameDropEffect"]>>],
    outputPath |-> ValidPath],
   [mediaItem |-> [uri |-> "other.mp4",
                   audioProcessors |-> <<ChannelMixing(<<[inputChannelCount |-> 2,
                                                          outputChannelCount |-> 1]>>)>>],
    outputPath |-> <<"/", "b">>]}

ConcurrentInit ==
  /\ InitWith({1, 2}, ConcurrentRequests, TRUE)
  /\ request[1].mediaItem.uri = "in.mp4"
  /\ request[2].mediaItem.uri = "other.mp4"

ConcurrentSpec == ConcurrentInit /\ [][Next]_vars

----------------------------------------------------------------------------
(* Properties *)

Resolved(c) == c.state \in {"Resumed", "Cancelled"}

OutcomeKinds == {"Success", "MissingArgument", "EngineFailure", "Cancelled"}

\* the cancellation was requested after start and before any listener callback
CancelledWhileRunning(i) ==
  /\ hist[i].cancelAt # ""
  /\ hist[i].startsAtCancel >= 1
  /\ hist[i].callbacksAtCancel = 0

\* the block has gone past continuation.invokeOnCancellation
PastRegistration(i) == pc[i] \in {"getResult", "suspended", "done"}

\* C1: whatever the interleaving of onCompleted, onError and cancellation, the caller
\* is resumed at most once, with exactly one outcome (a result, or one error), that
\* outcome is what the continuation was resolved with, and neither the continuation's
\* resolution nor the caller's outcome ever changes once made.
C1_ResolvedOnce ==
  /\ [](\A i \in Invocations :
          /\ caller[i].resumed <= 1
          /\ (caller[i].resumed = 0) <=> (caller[i].outcome.kind = "none")
          /\ caller[i].resumed = 1 => caller[i].outcome.kind \in OutcomeKinds
          /\ caller[i].outcome.kind = "Success" =>
               /\ cont[i].state = "Resumed"
               /\ cont[i].result = [kind |-> "value", value |-> caller[i].outcome.value]
          /\ caller[i].outcome.kind = "EngineFailure" =>
               /\ cont[i].state = "Resumed"
               /\ cont[i].result = [kind |-> "exception", exception |-> caller[i].outcome.exception]
          /\ (cont[i].state = "Resumed") <=> (cont[i].result.kind \in {"value", "exception"}))
  /\ [][\A i \in Invocations :
          /\ Resolved(cont[i]) =>
               /\ cont'[i].state = cont[i].state
               /\ cont'[i].result = cont[i].result
          /\ caller[i].resumed = 1 => caller'[i] = caller[i]]_vars

C1_Witness ==
  \E i \in Invocations :
    /\ caller[i].outcome.kind = "Success"
    /\ engine[i].callbacks = MaxCallbacks
    /\ job[i] = "Cancelled"

\* C2: when cancellation is requested after transformer.start and before any listener
\* callback, the continuation is Cancelled, the caller's outcome is Cancelled, and
\* transformer.cancel() has run exactly once as soon as the block is past
\* invokeOnCancellation (never twice, and not at all only while the handler is not
\* yet registered).
C2_CancelOnce ==
  \A i \in Invocations :
    CancelledWhileRunning(i) =>
      /\ cont[i].state = "Cancelled"
      /\ engine[i].cancelCalls = IF PastRegistration(i) THEN 1 ELSE 0
      /\ caller[i].resumed = 1 => caller[i].outcome = [kind |-> "Cancelled"]

C2_Witness ==
  \E i \in Invocations :
    /\ CancelledWhileRunning(i)
    /\ hist[i].cancelAt = "suspended"
    /\ pc[i] = "done"
    /\ engine[i].cancelCalls = 1

C4_Original ==
  /\ [](\A i \in Invocations : hist[i].faults = 0)
  /\ [][\A i \in Invocations :
          (Resolved(cont[i]) /\ engine'[i].callbacks # engine[i].callbacks) =>
             /\ cont'[i].state = cont[i].state
             /\ cont'[i].result = cont[i].result]_vars

\* C5: a cancellation requested after start and before any listener callback makes
\* the continuation Cancelled in that very step, with no engine callback awaited, and
\* no callback fired afterwards changes that: the caller's outcome is Cancelled.
C5_CancellationWins ==
  /\ [](\A i \in Invocations :
          CancelledWhileRunning(i) =>
            /\ cont[i].state = "Cancelled"
            /\ cont[i].result = NoResult
            /\ caller[i].outcome.kind \in {"none", "Cancelled"})
  /\ [][\A i \in Invocations :
          (job[i] = "Active" /\ job'[i] = "Cancelled"
             /\ engine[i].starts # <<>> /\ engine[i].callbacks = 0) =>
            /\ cont'[i].state = "Cancelled"
            /\ engine'[i].callbacks = engine[i].callbacks]_vars

C5_Witness ==
  \E i \in Invocations :
    /\ CancelledWhileRunning(i)
    /\ engine[i].callbacks = MaxCallbacks
    /\ hist[i].first.kind = "value"
    /\ caller[i].outcome = [kind |-> "Cancelled"]

----------------------------------------------------------------------------
(* Properties of validation and compilation *)

fieldsOf(fs) == {fs[k] : k \in 1..Len(fs)}

\* the required fields of each variant, as the data model lists them
SpecFieldOrder(effectType) ==
  CASE effectType = "PresentationForAspectRatio" -> <<"aspectRatio", "layout">>
    [] effectType = "PresentationForWidthAndHeight" -> <<"width", "height", "layout">>
    [] effectType = "PresentationForHeight" -> <<"height">>
    [] effectType = "FrameDropEffect" -> <<"targetFrameRate">>
    [] effectType = "ScaleAndRotateTransformation" -> <<"scaleX", "scaleY", "rotationDegrees">>

SpecRequiredFields(effectType) == fieldsOf(SpecFieldOrder(effectType))

WellFormedEffect(e) == Has(e, "type") /\ SpecRequiredFields(e.type) \subseteq DOMAIN e

\* e has a type and lacks exactly one of its variant's required fields
MissesOneField(e) ==
  Has(e, "type") /\ Cardinality(SpecRequiredFields(e.type) \ DOMAIN e) = 1

TheMissingField(e) == CHOOSE f \in SpecRequiredFields(e.type) \ DOMAIN e : TRUE

WellFormedProcessor(p) ==
  /\ Has(p, "type")
  /\ Has(p, "channelMixingMatrices") =>
       \A k \in 1..Len(p.channelMixingMatrices) :
         {"inputChannelCount", "outputChannelCount"} \subseteq DOMAIN p.channelMixingMatrices[k]

\* mediaItem, mediaItem.uri and outputPath are all present
ValidHead(o) == Has(o, "mediaItem") /\ Has(o, "outputPath") /\ Has(o.mediaItem, "uri")

EffectsOf(o) == IF Has(o.mediaItem, "videoEffects") THEN o.mediaItem.videoEffects ELSE <<>>

ProcessorsOf(o) == IF Has(o.mediaItem, "audioProcessors") THEN o.mediaItem.audioProcessors ELSE <<>>

\* the k-th effect is the first one of the list that is not well formed
FirstOffendingEffect(o, k) ==
  /\ k \in 1..Len(EffectsOf(o))
  /\ ~WellFormedEffect(EffectsOf(o)[k])
  /\ \A j \in 1..(k - 1) : WellFormedEffect(EffectsOf(o)[j])

\* every effect is well formed and the k-th processor is the first that is not
FirstOffendingProcessor(o, k) ==
  /\ \A j \in 1..Len(EffectsOf(o)) : WellFormedEffect(EffectsOf(o)[j])
  /\ k \in 1..Len(ProcessorsOf(o))
  /\ ~WellFormedProcessor(ProcessorsOf(o)[k])
  /\ \A j \in 1..(k - 1) : WellFormedProcessor(ProcessorsOf(o)[j])

Prefixed(prefix, names) == [k \in 1..Len(names) |-> prefix \o names[k]]

\* the missing fields of one effect, of one matrix, of one processor, in checking order
MissingInEffect(e) ==
  IF ~Has(e, "type") THEN <<"videoEffects.type">>
  ELSE Prefixed("videoEffects.", SelectSeq(SpecFieldOrder(e.type), LAMBDA f : ~Has(e, f)))

MissingInMatrix(m) ==
  Prefixed("audioProcessors.channelMixingMatrices.",
           SelectSeq(<<"inputChannelCount", "outputChannelCount">>, LAMBDA f : ~Has(m, f)))

MissingInProcessor(p) ==
  IF ~Has(p, "type") THEN <<"audioProcessors.type">>
  ELSE IF ~Has(p, "channelMixingMatrices") THEN <<>>
  ELSE Concat([k \in 1..Len(p.channelMixingMatrices) |-> MissingInMatrix(p.channelMixingMatrices[k])])

MissingHead(o, name) ==
  CASE name = "mediaItem" -> ~Has(o, "mediaItem")
    [] name = "mediaItem.uri" -> Has(o, "mediaItem") /\ ~Has(o.mediaItem, "uri")
    [] name = "outputPath" -> ~Has(o, "outputPath")

\* every missing required field of the request o, the head fields in the order
\* headOrder, then the effects' in list order, then the processors' in list order
AllMissing(o, headOrder) ==
  SelectSeq(headOrder, LAMBDA name : MissingHead(o, name))
  \o (IF Has(o, "mediaItem")
      THEN Concat([k \in 1..Len(EffectsOf(o)) |-> MissingInEffect(EffectsOf(o)[k])])
           \o Concat([k \in 1..Len(ProcessorsOf(o)) |-> MissingInProcessor(ProcessorsOf(o)[k])])
      ELSE <<>>)

\* C6: when the first offending effect of a request with a valid head lacks exactly
\* one required field of its variant, whichever variant and field, the listener is
\* never added, transformer.start is never called and the invocation ends in
\* MissingArgument naming that field.
C6_MissingEffectField ==
  \A i \in Invocations :
    ValidHead(options[i]) =>
      \A k \in 1..Len(EffectsOf(options[i])) :
        (FirstOffendingEffect(options[i], k) /\ MissesOneField(EffectsOf(options[i])[k])) =>
          /\ engine[i] = NewEngine
          /\ pc[i] \in {"executeTransform", "validate", "toMediaItem", "toEditedMediaItem", "done"}
          /\ pc[i] = "done" =>
               caller[i].outcome =
                 [kind |-> "MissingArgument",
                  argumentName |-> "videoEffects." \o TheMissingField(EffectsOf(options[i])[k])]

C6_Witness ==
  \E i \in Invocations :
    /\ ValidHead(options[i])
    /\ FirstOffendingEffect(options[i], 2)
    /\ MissesOneField(EffectsOf(options[i])[2])
    /\ pc[i] = "done"
    /\ caller[i].outcome.kind = "MissingArgument"
    /\ caller[i].outcome.argumentName = "videoEffects.rotationDegrees"

\* C7 as claimed: the argument name of the exception carries the position of the
\* offending element: videoEffects[i].f, audioProcessors[i].f.
C7_Original ==
  \A i \in Invocations :
    (pc[i] = "done" /\ ValidHead(options[i])) =>
      /\ \A k \in 1..Len(EffectsOf(options[i])) :
           (FirstOffendingEffect(options[i], k) /\ MissesOneField(EffectsOf(options[i])[k])) =>
             caller[i].outcome.argumentName =
               "videoEffects[" \o ToString(k - 1) \o "]."
                 \o TheMissingField(EffectsOf(options[i])[k])
      /\ \A k \in 1..Len(ProcessorsOf(options[i])) :
           (FirstOffendingProcessor(options[i], k) /\ ~Has(ProcessorsOf(options[i])[k], "type")) =>
             caller[i].outcome.argumentName = "audioProcessors[" \o ToString(k - 1) \o "].type"

\* C7 as amended: the argument name carries the list and the field but not the
\* position of the offending element: videoEffects.f for an effect, audioProcessors.type
\* or audioProcessors.channelMixingMatrices.f for a processor, the same at every index.
C7_PathWithoutIndex ==
  \A i \in Invocations :
    (pc[i] = "done" /\ ValidHead(options[i])) =>
      /\ \A k \in 1..Len(EffectsOf(options[i])) :
           FirstOffendingEffect(options[i], k) =>
             /\ caller[i].outcome.kind = "MissingArgument"
             /\ caller[i].outcome.argumentName = Head(MissingInEffect(EffectsOf(options[i])[k]))
      /\ \A k \in 1..Len(ProcessorsOf(options[i])) :
           FirstOffendingProcessor(options[i], k) =>
             /\ caller[i].outcome.kind = "MissingArgument"
             /\ caller[i].outcome.argumentName = Head(MissingInProcessor(ProcessorsOf(options[i])[k]))

C7_Witness ==
  \E i \in Invocations :
    /\ pc[i] = "done"
    /\ ValidHead(options[i])
    /\ FirstOffendingEffect(options[i], 2)
    /\ caller[i].outcome = [kind |-> "MissingArgument", argumentName |-> "videoEffects.targetFrameRate"]

\* C8 as claimed: the exception names the first missing field along mediaItem,
\* mediaItem.uri, outputPath, the effects in list order, the processors in list order.
C8_Original ==
  \A i \in Invocations :
    LET missing == AllMissing(options[i], <<"mediaItem", "mediaItem.uri", "outputPath">>) IN
    (pc[i] = "done" /\ missing # <<>>) =>
      caller[i].outcome = [kind |-> "MissingArgument", argumentName |-> Head(missing)]

\* C8 as amended: the exception names the first missing field along mediaItem,
\* outputPath, mediaItem.uri, the effects in list order, the processors in list order;
\* a request lacking both mediaItem.uri and outputPath reports outputPath.  A request
\* with no missing field does not end in MissingArgument.
C8_FirstMissingInCodeOrder ==
  \A i \in Invocations :
    LET missing == AllMissing(options[i], <<"mediaItem", "outputPath", "mediaItem.uri">>) IN
    pc[i] = "done" =>
      IF missing # <<>>
      THEN caller[i].outcome = [kind |-> "MissingArgument", argumentName |-> Head(missing)]
      ELSE caller[i].outcome.kind # "MissingArgument"

C8_Witness ==
  \E i \in Invocations :
    /\ pc[i] = "done"
    /\ Has(options[i], "mediaItem")
    /\ ~Has(options[i].mediaItem, "uri")
    /\ ~Has(options[i], "outputPath")
    /\ Has(options[i].mediaItem, "videoEffects")
    /\ caller[i].outcome = [kind |-> "MissingArgument", argumentName |-> "outputPath"]

\* C9 as claimed: a request whose mediaItem.uri or outputPath is absent or empty
\* builds no engine object, never starts the engine and ends in MissingArgument.
C9_Original ==
  \A i \in Invocations :
    LET o == options[i] IN
    (/\ Has(o, "mediaItem")
     /\ \/ ~Has(o, "outputPath")
        \/ ~Has(o.mediaItem, "uri")
        \/ o.outputPath = <<>>
        \/ o.mediaItem.uri = "") =>
      /\ built[i] = <<>>
      /\ engine[i] = NewEngine
      /\ pc[i] = "done" => caller[i].outcome.kind = "MissingArgument"

\* C10: the EditedMediaItem handed to transformer.start holds as many effects and
\* processors as the request lists, and the k-th of each is the compilation of the
\* k-th element of the request's list.
C10_OrderPreserved ==
  \A i \in Invocations :
    \A s \in 1..Len(engine[i].starts) :
      LET edited == engine[i].starts[s].editedMediaItem
          es == EffectsOf(options[i])
          ps == ProcessorsOf(options[i])
      IN /\ Len(edited.videoEffects) = Len(es)
         /\ Len(edited.audioProcessors) = Len(ps)
         /\ \A k \in 1..Len(es) : edited.videoEffects[k] = toEffect(es[k]).value
         /\ \A k \in 1..Len(ps) : edited.audioProcessors[k] = toAudioProcessor(ps[k]).value

C10_Witness ==
  \E i \in Invocations :
    /\ engine[i].starts # <<>>
    /\ Len(engine[i].starts[1].editedMediaItem.videoEffects) = MaxEffects
    /\ engine[i].starts[1].editedMediaItem.videoEffects[1]
         # engine[i].starts[1].editedMediaItem.videoEffects[2]
    /\ Len(engine[i].starts[1].editedMediaItem.audioProcessors) = 1

----------------------------------------------------------------------------
(* Properties of the compiled objects *)

MatricesOf(p) == IF Has(p, "channelMixingMatrices") THEN p.channelMixingMatrices ELSE <<>>

CompleteMatrix(m) == {"inputChannelCount", "outputChannelCount"} \subseteq DOMAIN m

\* the objects of the given class among those the invocation constructed
BuiltOf(i, class) == SelectSeq(built[i], LAMBDA obj : obj.class = class)

\* the block has compiled the whole EditedMediaItem
Compiled(i) == Has(locals[i], "editedMediaItem")

\* C11: once the EditedMediaItem is compiled, each ChannelMixing processor of the
\* request has given one ChannelMixingAudioProcessor, which was fed one matrix per
\* element of its matrix list, in list order, created from that element's
\* inputChannelCount and outputChannelCount as given (zero and negative included);
\* and when the first offending processor of an otherwise valid request has a type
\* and a matrix without one of its counts, nothing is compiled and the invocation
\* ends in MissingArgument.
C11_MatricesFedInOrder ==
  \A i \in Invocations :
    LET ps == ProcessorsOf(options[i]) IN
    /\ Compiled(i) =>
         /\ Len(BuiltOf(i, "ChannelMixingAudioProcessor")) = Len(ps)
         /\ locals[i].editedMediaItem.audioProcessors = BuiltOf(i, "ChannelMixingAudioProcessor")
         /\ \A k \in 1..Len(ps) :
              LET fed == locals[i].editedMediaItem.audioProcessors[k].matrices
                  ms == MatricesOf(ps[k])
              IN /\ Len(fed) = Len(ms)
                 /\ \A j \in 1..Len(ms) :
                      /\ fed[j].inputChannels = ms[j].inputChannelCount
                      /\ fed[j].outputChannels = ms[j].outputChannelCount
    /\ ValidHead(options[i]) =>
         \A k \in 1..Len(ps) :
           (/\ FirstOffendingProcessor(options[i], k)
            /\ Has(ps[k], "type")) =>
             /\ ~Compiled(i)
             /\ engine[i] = NewEngine
             /\ pc[i] = "done" =>
                  /\ caller[i].outcome.kind = "MissingArgument"
                  /\ caller[i].outcome.argumentName \in
                       {"audioProcessors.channelMixingMatrices.inputChannelCount",
                        "audioProcessors.channelMixingMatrices.outputChannelCount"}

C11_Witness ==
  \E i \in Invocations :
    /\ engine[i].starts # <<>>
    /\ Len(engine[i].starts[1].editedMediaItem.audioProcessors) = 1
    /\ engine[i].starts[1].editedMediaItem.audioProcessors[1].matrices =
         <<[class |-> "ChannelMixingMatrix", inputChannels |-> 0, outputChannels |-> -1],
           [class |-> "ChannelMixingMatrix", inputChannels |-> 2, outputChannels |-> 1]>>

\* C12: the MediaItem the block compiles, and the one inside the EditedMediaItem
\* handed to transformer.start, carries a ClippingConfiguration iff the request's
\* mediaItem has a clippingConfiguration; on it the start position is set iff
\* startPositionMs is present and the end position iff endPositionMs is present, each
\* to the value given, also when start > end, and nothing else is set.
C12_ClippingAsGiven ==
  \A i \in Invocations :
    Has(locals[i], "mediaItem") =>
      LET m == options[i].mediaItem
          item == locals[i].mediaItem
      IN /\ (item.clipping # <<>>) <=> Has(m, "clippingConfiguration")
         /\ Len(item.clipping) <= 1
         /\ Len(BuiltOf(i, "ClippingConfiguration")) = Len(item.clipping)
         /\ Has(m, "clippingConfiguration") =>
              LET c == m.clippingConfiguration
                  set == item.clipping[1].set
              IN /\ DOMAIN set \subseteq {"startPositionMs", "endPositionMs"}
                 /\ ("startPositionMs" \in DOMAIN set) <=> Has(c, "startPositionMs")
                 /\ ("endPositionMs" \in DOMAIN set) <=> Has(c, "endPositionMs")
                 /\ Has(c, "startPositionMs") => set.startPositionMs = c.startPositionMs
                 /\ Has(c, "endPositionMs") => set.endPositionMs = c.endPositionMs
         /\ \A k \in 1..Len(engine[i].starts) :
              engine[i].starts[k].editedMediaItem.mediaItem = item

C12_Witness ==
  \E i \in Invocations :
    /\ engine[i].starts # <<>>
    /\ Has(options[i].mediaItem, "clippingConfiguration")
    /\ engine[i].starts[1].editedMediaItem.mediaItem.clipping =
         <<[class |-> "ClippingConfiguration",
            set |-> [startPositionMs |-> 6000, endPositionMs |-> 1000]]>>

\* the keys of TransformerResult, and those that hold a 32-bit and a 64-bit number in
\* ExportResult
ResultKeys ==
  {"averageAudioBitrate", "averageVideoBitrate", "durationMs", "fileSizeBytes",
   "videoFrameCount", "channelCount", "sampleRate", "height", "width",
   "audioEncoderName", "videoEncoderName"}

LongKeys == {"durationMs", "fileSizeBytes"}

NameKeys == {"audioEncoderName", "videoEncoderName"}

\* the Int v and the Long x are the same number: x is the sign extension of v
SameNumber(v, x) == x.lo = v /\ x.hi = (IF v < 0 THEN -1 ELSE 0)

\* the invocation ended in success and its first callback reported the ExportResult r
SucceededWith(i, r) ==
  /\ caller[i].outcome.kind = "Success"
  /\ hist[i].reported = r

\* C13 as claimed: the record the caller receives after onCompleted(R) has exactly
\* the eleven keys of TransformerResult, each equal to the field of R; durationMs and
\* fileSizeBytes are the same numbers as R's 64-bit durationMs and fileSizeBytes.
C13_Original ==
  \A i \in Invocations : \A r \in ExportResults :
    SucceededWith(i, r) =>
      LET v == caller[i].outcome.value IN
      /\ DOMAIN v = ResultKeys
      /\ \A k \in ResultKeys \ LongKeys : v[k] = r[k]
      /\ \A k \in LongKeys : SameNumber(v[k], r[k])

\* C14 as claimed: no numeric field of the record the caller receives is negative.
C14_Original ==
  \A i \in Invocations :
    caller[i].outcome.kind = "Success" =>
      \A k \in ResultKeys \ NameKeys :
        Has(caller[i].outcome.value, k) => caller[i].outcome.value[k] >= 0

\* the first listener callback was onError(E) and no cancellation came before it
FailedWhileRunning(i, e) ==
  /\ hist[i].first.kind = "exception"
  /\ hist[i].reported = e
  /\ ~(hist[i].cancelAt # "" /\ hist[i].callbacksAtCancel = 0)

\* C15: when the first listener callback of a started, uncancelled invocation is
\* onError(E), the continuation is resumed with E itself and stays so whatever comes
\* later (another callback, a cancellation), and the caller, once resumed, has
\* received an EngineFailure carrying E with its message and cause: never a success
\* and never Cancelled.
C15_EngineFailurePropagates ==
  \A i \in Invocations : \A e \in ExportExceptions :
    FailedWhileRunning(i, e) =>
      /\ cont[i].state = "Resumed"
      /\ cont[i].result = [kind |-> "exception", exception |-> e]
      /\ caller[i].resumed = 1 =>
           /\ caller[i].outcome.kind = "EngineFailure"
           /\ caller[i].outcome.exception.message = e.message
           /\ caller[i].outcome.exception.cause = e.cause
      /\ pc[i] = "done" => caller[i].resumed = 1

C15_Witness ==
  \E i \in Invocations : \E e \in ExportExceptions :
    /\ FailedWhileRunning(i, e)
    /\ hist[i].cancelAt = "suspended"
    /\ engine[i].callbacks = MaxCallbacks
    /\ caller[i].outcome = [kind |-> "EngineFailure", exception |-> e]

\* the path begins with a URI scheme: "file://", or the scheme "c:"
HasSchemePrefix(path) == StartsWith(path, FilePrefix) \/ StartsWith(path, <<"c", ":">>)

\* invocation i takes the step of the JS wrapper that calls the native module
WrapperCalls(i) == pc[i] = "transform" /\ pc'[i] # "transform"

\* C16 as claimed: the outputPath the wrapper hands to the native module begins with
\* no URI scheme, whatever the outputPath it was given; the caller's object is not
\* changed and every other field is forwarded as it is.
C16_Original ==
  [][\A i \in Invocations :
       WrapperCalls(i) =>
         /\ ~HasSchemePrefix(options'[i].outputPath)
         /\ request'[i] = request[i]
         /\ Drop(options'[i], "outputPath") = Drop(request[i], "outputPath")]_vars

\* C16 as amended: the outputPath the wrapper hands to the native module is the given
\* outputPath without its leading "file://" when it begins with one, and the given
\* outputPath unchanged otherwise: only one "file://" is removed and no other scheme
\* is; the caller's object is not changed and every other field is forwarded as it is.
C16_StripsOneFilePrefix ==
  [][\A i \in Invocations :
       WrapperCalls(i) =>
         /\ IF StartsWith(request[i].outputPath, FilePrefix)
            THEN request[i].outputPath = FilePrefix \o options'[i].outputPath
            ELSE options'[i].outputPath = request[i].outputPath
         /\ request'[i] = request[i]
         /\ Drop(options'[i], "outputPath") = Drop(request[i], "outputPath")]_vars

C16_Witness ==
  \E i \in Invocations :
    /\ pc[i] = "done"
    /\ Has(request[i], "outputPath")
    /\ Has(request[i], "mediaItem")
    /\ request[i].outputPath = FilePrefix \o FilePrefix
    /\ options[i].outputPath = FilePrefix
    /\ Has(request[i].mediaItem, "uri")

\* everything the model holds for invocation i
StateOf(i) ==
  <<request[i], options[i], pc[i], job[i], cont[i], locals[i], built[i], engine[i],
    caller[i], hist[i]>>

\* the same, in the next state
NextStateOf(i) ==
  <<request'[i], options'[i], pc'[i], job'[i], cont'[i], locals'[i], built'[i], engine'[i],
    caller'[i], hist'[i]>>

\* the EditedMediaItem that the request handed to the native module compiles to
OwnEditedMediaItem(i) ==
  toEditedMediaItem(options[i].mediaItem, toMediaItem(options[i].mediaItem).value).value

\* C17: with several invocations in flight, each builds at most one Transformer (one
\* once its block is past toTransformer) and starts it at most once, with the
\* EditedMediaItem compiled from its own request and its own outputPath; the engine's
\* cancel is called on an invocation's Transformer only if that invocation's own Job
\* was cancelled, an invocation's outcome stems from its own request, its own
\* Transformer's callback or its own cancellation, and every step (a callback, a
\* cancellation, a validation error, a compilation step) changes the state of exactly
\* one invocation and leaves every other invocation's state as it was.
C17_Independent ==
  /\ [](\A i \in Invocations :
          /\ Len(BuiltOf(i, "Transformer")) = (IF Has(locals[i], "transformer") THEN 1 ELSE 0)
          /\ Len(BuiltOf(i, "EditedMediaItem")) = (IF Compiled(i) THEN 1 ELSE 0)
          /\ Len(engine[i].starts) <= 1
          /\ \A k \in 1..Len(engine[i].starts) :
               /\ engine[i].starts[k].editedMediaItem = OwnEditedMediaItem(i)
               /\ engine[i].starts[k].outputPath = options[i].outputPath
          /\ engine[i].cancelCalls > 0 => job[i] = "Cancelled"
          /\ caller[i].outcome.kind = "Cancelled" => job[i] = "Cancelled"
          /\ caller[i].outcome.kind = "MissingArgument" =>
               AllMissing(options[i], <<"mediaItem", "outputPath", "mediaItem.uri">>) # <<>>
          /\ caller[i].outcome.kind = "Success" =>
               /\ engine[i].callbacks >= 1
               /\ caller[i].outcome.value = toMap(hist[i].reported)
          /\ caller[i].outcome.kind = "EngineFailure" =>
               /\ engine[i].callbacks >= 1
               /\ caller[i].outcome.exception = hist[i].reported)
  /\ [][\E i \in Invocations :
          \A j \in Invocations \ {i} : NextStateOf(j) = StateOf(j)]_vars

C17_Witness ==
  /\ Cardinality(Invocations) = 2
  /\ \A i \in Invocations : pc[i] = "done"
  /\ \E i, j \in Invocations :
       /\ caller[i].outcome.kind = "Cancelled"
       /\ engine[i].cancelCalls = 1
       /\ engine[i].starts # <<>>
       /\ caller[j].outcome.kind = "Success"
       /\ engine[j].cancelCalls = 0
       /\ job[j] = "Active"
       /\ engine[j].starts # <<>>
       /\ engine[j].starts[1].editedMediaItem # engine[i].starts[1].editedMediaItem

\* the place of each class of engine object in the order of construction
ConstructionRank(class) ==
  CASE class = "ClippingConfiguration" -> 1
    [] class = "MediaItem" -> 2
    [] class = "Effect" -> 3
    [] class = "ChannelMixingAudioProcessor" -> 4
    [] class = "EditedMediaItem" -> 5
    [] class = "VideoEncoderSettings" -> 6
    [] class = "DefaultEncoderFactory" -> 7
    [] class = "Transformer" -> 8

\* C18: within one invocation the engine objects are constructed in the order
\* MediaItem, the effects in list order, the audio processors in list order, the
\* EditedMediaItem, then the Transformer; the listener is added only to a built
\* Transformer; transformer.start is called at most once, only with the listener
\* added and with every effect and processor of the request and the Transformer
\* already constructed, and nothing is constructed after it.
C18_CompileThenListenThenStart ==
  \A i \in Invocations :
    /\ \A a, b \in 1..Len(built[i]) :
         a < b => ConstructionRank(built[i][a].class) <= ConstructionRank(built[i][b].class)
    /\ Compiled(i) =>
         /\ BuiltOf(i, "Effect") = locals[i].editedMediaItem.videoEffects
         /\ BuiltOf(i, "ChannelMixingAudioProcessor") = locals[i].editedMediaItem.audioProcessors
    /\ engine[i].listener => Len(BuiltOf(i, "Transformer")) = 1
    /\ Len(engine[i].starts) <= 1
    /\ (engine[i].starts # <<>>) <=> (pc[i] \in {"invokeOnCancellation", "getResult", "suspended", "done"}
                                       /\ engine[i].listener)
    /\ \A k \in 1..Len(engine[i].starts) :
         /\ engine[i].starts[k].listener
         /\ engine[i].starts[k].after = Len(built[i])
         /\ Len(BuiltOf(i, "MediaItem")) = 1
         /\ Len(BuiltOf(i, "Effect")) = Len(EffectsOf(options[i]))
         /\ Len(BuiltOf(i, "ChannelMixingAudioProcessor")) = Len(ProcessorsOf(options[i]))
         /\ Len(BuiltOf(i, "EditedMediaItem")) = 1
         /\ Len(BuiltOf(i, "Transformer")) = 1
         /\ engine[i].starts[k].editedMediaItem = locals[i].editedMediaItem

C18_Witness ==
  \E i \in Invocations :
    /\ engine[i].starts # <<>>
    /\ Len(BuiltOf(i, "Effect")) = MaxEffects
    /\ Len(BuiltOf(i, "ChannelMixingAudioProcessor")) = 1
    /\ engine[i].starts[1].after = MaxEffects + 4
    /\ engine[i].callbacks > 0

EndedInMissingArgument(i) == pc[i] = "done" /\ caller[i].outcome.kind = "MissingArgument"

\* C19 as claimed: an invocation that ends in MissingArgument has constructed no
\* engine object at all.
C19_Original ==
  \A i \in Invocations :
    EndedInMissingArgument(i) => built[i] = <<>> /\ engine[i] = NewEngine

\* C19 as amended: an invocation that ends in MissingArgument has constructed no
\* EditedMediaItem, no encoder factory and no Transformer, has added no listener and
\* has not called start; but it has constructed the objects that precede the
\* offending element in the order of compilation: nothing when mediaItem, outputPath
\* or mediaItem.uri is missing; the MediaItem (with its ClippingConfiguration) and
\* the k-1 effects before an offending k-th effect; the MediaItem, all the effects
\* and the k-1 processors before an offending k-th processor, and that processor too
\* when it has a type and a matrix without one of its counts.
C19_CompiledUpToOffender ==
  \A i \in Invocations :
    EndedInMissingArgument(i) =>
      LET o == options[i] IN
      /\ engine[i] = NewEngine
      /\ \A c \in {"EditedMediaItem", "VideoEncoderSettings", "DefaultEncoderFactory", "Transformer"} :
           BuiltOf(i, c) = <<>>
      /\ ~ValidHead(o) => built[i] = <<>>
      /\ ValidHead(o) =>
           /\ Len(BuiltOf(i, "MediaItem")) = 1
           /\ \A k \in 1..Len(EffectsOf(o)) :
                FirstOffendingEffect(o, k) =>
                  /\ BuiltOf(i, "Effect") = [j \in 1..(k - 1) |-> toEffect(EffectsOf(o)[j]).value]
                  /\ BuiltOf(i, "ChannelMixingAudioProcessor") = <<>>
           /\ \A k \in 1..Len(ProcessorsOf(o)) :
                FirstOffendingProcessor(o, k) =>
                  /\ Len(BuiltOf(i, "Effect")) = Len(EffectsOf(o))
                  /\ Len(BuiltOf(i, "ChannelMixingAudioProcessor")) =
                       (k - 1) + (IF Has(ProcessorsOf(o)[k], "type") THEN 1 ELSE 0)

C19_Witness ==
  \E i \in Invocations :
    /\ EndedInMissingArgument(i)
    /\ ValidHead(options[i])
    /\ FirstOffendingEffect(options[i], 2)
    /\ Len(BuiltOf(i, "MediaItem")) = 1
    /\ Len(BuiltOf(i, "Effect")) = 1

\* the caller has received the outcome of a started engine
OutcomeDelivered(i) ==
  caller[i].resumed = 1 /\ caller[i].outcome.kind \in {"Success", "EngineFailure", "Cancelled"}

Phase(i) ==
  CASE caller[i].outcome.kind = "Success" -> "Completed"
    [] caller[i].outcome.kind = "EngineFailure" -> "Failed"
    [] caller[i].outcome.kind = "Cancelled" -> "Cancelled"
    [] caller[i].outcome.kind = "MissingArgument" -> "Rejected"
    [] caller[i].outcome.kind = "none" /\ engine[i].starts # <<>> -> "Running"
    [] OTHER -> "Idle"

PhaseAfter(i) ==
  CASE caller'[i].outcome.kind = "Success" -> "Completed"
    [] caller'[i].outcome.kind = "EngineFailure" -> "Failed"
    [] caller'[i].outcome.kind = "Cancelled" -> "Cancelled"
    [] caller'[i].outcome.kind = "MissingArgument" -> "Rejected"
    [] caller'[i].outcome.kind = "none" /\ engine'[i].starts # <<>> -> "Running"
    [] OTHER -> "Idle"

PhaseSteps ==
  {<<"Idle", "Idle">>, <<"Idle", "Running">>, <<"Idle", "Rejected">>, <<"Running", "Running">>,
   <<"Running", "Completed">>, <<"Running", "Failed">>, <<"Running", "Cancelled">>,
   <<"Completed", "Completed">>, <<"Failed", "Failed">>, <<"Cancelled", "Cancelled">>,
   <<"Rejected", "Rejected">>}

\* the request handed to the native module has no missing field
PassesValidation(i) ==
  AllMissing(options[i], <<"mediaItem", "outputPath", "mediaItem.uri">>) = <<>>

\* C21: an invocation whose request passes validation goes from Idle to Running (at
\* transformer.start) and from Running to exactly one of Completed, Failed and
\* Cancelled, where it stays; its caller is resumed only once the continuation is
\* resolved, never while the engine runs with the outcome open; and when the block
\* runs on, the dispatcher runs resumed callers and the engine fires a callback for
\* every started, uncancelled instance, every invocation ends with its caller
\* resumed, in a terminal state if its request passes validation.
C21_Lifecycle ==
  /\ [](\A i \in Invocations :
          /\ caller[i].resumed = 1 => pc[i] = "done"
          /\ Phase(i) \in {"Completed", "Failed", "Cancelled"} =>
               /\ PassesValidation(i)
               /\ engine[i].starts # <<>>
               /\ Resolved(cont[i])
               /\ caller[i].resumed = 1
          /\ Phase(i) = "Rejected" => ~PassesValidation(i) /\ engine[i].starts = <<>>
          /\ Phase(i) = "Running" => PassesValidation(i))
  /\ [][\A i \in Invocations : <<Phase(i), PhaseAfter(i)>> \in PhaseSteps]_vars
  /\ <>[](\A i \in Invocations :
            /\ caller[i].resumed = 1
            /\ PassesValidation(i) => Phase(i) \in {"Completed", "Failed", "Cancelled"})

C21_Witness ==
  \E i \in Invocations :
    /\ Phase(i) = "Completed"
    /\ hist[i].cancelAt = ""
    /\ engine[i].callbacks = 1
    /\ options[i].outputPath = ValidPath
    /\ request[i].outputPath = FilePrefix \o ValidPath

\* the cancellation was requested inside executeTransform before the handler was
\* registered and before any listener callback
CancelledBeforeRegistration(i) ==
  /\ hist[i].cancelAt \in {"executeTransform", "validate", "toMediaItem", "toEditedMediaItem",
                            "toTransformer", "addListener", "start", "invokeOnCancellation"}
  /\ hist[i].callbacksAtCancel = 0

\* C22: the cancellation handler is registered only after transformer.start; when the
\* cancellation of a request that passes validation is requested before the handler
\* is registered (and before any callback), the block still runs on: once it is past
\* the registration the Transformer has been started once and transformer.cancel()
\* has run exactly once, not before the registration, and the caller receives
\* Cancelled.  No started Transformer without a callback is left with a Cancelled
\* outcome and no cancel.
C22_CancelOnRegistration ==
  \A i \in Invocations :
    /\ cont[i].handler => engine[i].starts # <<>>
    /\ (CancelledBeforeRegistration(i) /\ PassesValidation(i)) =>
         /\ cont[i].state \in {"None", "Cancelled"}
         /\ cont[i].state = "None" <=> pc[i] = "executeTransform"
         /\ IF PastRegistration(i)
            THEN Len(engine[i].starts) = 1 /\ engine[i].cancelCalls = 1
            ELSE engine[i].cancelCalls = 0
         /\ pc[i] = "done" => caller[i].outcome = [kind |-> "Cancelled"]
    /\ (/\ caller[i].outcome.kind = "Cancelled"
        /\ engine[i].starts # <<>>
        /\ hist[i].callbacksAtCancel = 0) => engine[i].cancelCalls = 1

C22_Witness ==
  \E i \in Invocations :
    /\ hist[i].cancelAt = "executeTransform"
    /\ PassesValidation(i)
    /\ pc[i] = "done"
    /\ Len(engine[i].starts) = 1
    /\ engine[i].cancelCalls = 1
    /\ caller[i].outcome = [kind |-> "Cancelled"]

\* every element of the request's lists has its type and its required fields
AllElementsWellFormed(o) ==
  /\ \A k \in 1..Len(EffectsOf(o)) : WellFormedEffect(EffectsOf(o)[k])
  /\ \A k \in 1..Len(ProcessorsOf(o)) : WellFormedProcessor(ProcessorsOf(o)[k])

\* C23: an absent videoEffects or audioProcessors list compiles to an empty chain, and
\* a ChannelMixing processor whose channelMixingMatrices is absent or empty compiles to
\* a processor that was fed no matrix; a request with mediaItem, mediaItem.uri and
\* outputPath whose list elements all have their type and required fields never ends
\* in MissingArgument, whichever lists are absent or empty, and no MissingArgument
\* names a list itself.
C23_AbsentListsAreEmpty ==
  \A i \in Invocations :
    LET o == options[i] IN
    /\ Compiled(i) =>
         LET edited == locals[i].editedMediaItem IN
         /\ ~Has(o.mediaItem, "videoEffects") => edited.videoEffects = <<>>
         /\ ~Has(o.mediaItem, "audioProcessors") => edited.audioProcessors = <<>>
         /\ \A k \in 1..Len(ProcessorsOf(o)) :
              MatricesOf(ProcessorsOf(o)[k]) = <<>> => edited.audioProcessors[k].matrices = <<>>
    /\ (ValidHead(o) /\ AllElementsWellFormed(o)) =>
         /\ caller[i].outcome.kind # "MissingArgument"
         /\ pc[i] \notin {"validate", "toMediaItem", "toEditedMediaItem"} /\ pc[i] # "executeTransform"
              => Compiled(i)
    /\ caller[i].outcome.kind = "MissingArgument" =>
         caller[i].outcome.argumentName \notin
           {"mediaItem.videoEffects", "mediaItem.audioProcessors", "videoEffects", "audioProcessors",
            "audioProcessors.channelMixingMatrices"}

C23_Witness ==
  \E i \in Invocations :
    /\ engine[i].starts # <<>>
    /\ Len(ProcessorsOf(options[i])) = MaxProcessors
    /\ ~Has(ProcessorsOf(options[i])[1], "channelMixingMatrices")
    /\ engine[i].starts[1].editedMediaItem.audioProcessors[1].matrices = <<>>
    /\ engine[i].starts[1].editedMediaItem.audioProcessors[2].matrices # <<>>

====
